---- MODULE Spec2Model ----
(***************************************************************************)
(* Model of the GitHub client plugin (src/unnamed/part_001, the bundle of  *)
(* src/client.ts, src/environment.ts and src/index.ts).                    *)
(*                                                                         *)
(* One GitHubClient works on one local mirror (repoPath) of one remote     *)
(* repository.  The entry point GitHubClientInterface.start validates the  *)
(* settings, constructs the client, runs initialize (clone with retry, or  *)
(* pull, then checkout of the configured branch) and then                  *)
(* createMemoriesFromFiles (glob, read, hash, lookup, knowledge.set).      *)
(* The returned client offers createMemoriesFromFiles, createPullRequest   *)
(* and createCommit.  Every await of the source is one step of the model;  *)
(* a rejected await ends the call with the error (there is no try/catch    *)
(* in the source except the one inside cloneRepository's loop).            *)
(*                                                                         *)
(* The collaborators (git, the file system, the hosting API, the knowledge *)
(* store) are modelled by what the calls of the source do to them:         *)
(*   - commits are numbered 1.. in `commits`; each has a parent and the    *)
(*     tree (path -> bytes) it snapshots;                                  *)
(*   - remoteRefs are the branches of the remote, localRefs the branches   *)
(*     of the mirror, originRefs the mirror's remote-tracking refs,        *)
(*     tracking the local branches with an upstream;                       *)
(*   - files is the working tree of the mirror, unreadable the files       *)
(*     whose read fails (permissions);                                     *)
(*   - sink is the knowledge store: identifier -> stored record.           *)
(***************************************************************************)
EXTENDS Integers, Sequences, FiniteSets, TLC

\* ------------------------------------------------------------------ bounds

\* API calls (start, createMemoriesFromFiles, createPullRequest, createCommit)
MaxCalls == 3

\* steps of the environment (another writer's push, a local file change)
MaxEnv == 1

\* injected transient failures (network, auth, disk) over one behaviour
MaxFaults == 1

\* ------------------------------------------------------- program constants

\* a loop bound one too large
maxRetriesOneMore == 3 + 1

\* cloneRepository: const maxRetries = 3
maxRetries == 3

\* ------------------------------------------------------------- the values

\* paths are sequences of segments
PathA == <<"guides", "a.md">>
PathB == <<"guides", "b.md">>
PathC == <<"guides", "c.md">>
PathDot == <<"guides", ".keep">>
PathReadme == <<"README.md">>

Paths == {PathA, PathB, PathC, PathDot, PathReadme}

\* file contents are byte sequences; NoFile marks a path with no file
NoFile == <<-1>>

\* 97 = 'a', 98 = 'b'; 254 and 255 never occur in well-formed UTF-8
Contents == {<<97>>, <<98>>, <<255>>, <<254>>}

\* the tree of the remote's first commit
InitTree == [p \in Paths |->
               CASE p = PathA -> <<97>>
                 [] p = PathB -> <<255>>
                 [] p = PathC -> NoFile
                 [] p = PathDot -> <<97>>
                 [] OTHER -> <<97>>]

EmptyTree == [p \in Paths |-> NoFile]

Branches == {"main", "dev", "b1", "b2"}

\* the branch the remote's HEAD names: what a clone checks out
DefaultBranch == "main"

\* the branches the remote has at first
RemoteBranches == {"main", "dev"}

\* the settings the runtime can hold
ValidConfig == [owner |-> <<"acme">>, repo |-> <<"docs">>, branch |-> "main",
                path |-> <<"guides">>, token |-> "t"]

\* "gone" names nothing in the repository; "README.md" names no branch, but a
\* file of the tree
Configs == {ValidConfig,
            [ValidConfig EXCEPT !.branch = "dev"],
            [ValidConfig EXCEPT !.branch = "gone"],
            [ValidConfig EXCEPT !.branch = "README.md"],
            [ValidConfig EXCEPT !.branch = ""],
            [ValidConfig EXCEPT !.path = <<>>],
            [ValidConfig EXCEPT !.token = ""]}

\* ---------------------------------------------------------------- state

VARIABLES
  settings,     \* what runtime.getSetting returns
  config,       \* this.config of the client under construction / returned
  client,       \* TRUE once a start has returned a client
  repoExists,   \* existsSync(this.repoPath)
  commits,      \* every commit made so far: <<[parent, tree]>>
  remoteRefs,   \* remote branch -> commit
  originRefs,   \* the mirror's remote-tracking refs (as of the last fetch/push)
  localRefs,    \* local branch -> commit
  tracking,     \* local branches that have an upstream configured
  head,         \* the checked-out branch of the mirror
  files,        \* the working tree of the mirror
  unreadable,   \* paths whose readFile fails
  sink,         \* knowledge store: identifier -> record
  prs,          \* pull requests the hosting API holds: <<[head, base]>>
  op,           \* the call in flight: "none", "start", "scan", "pr", "commit"
  pc,           \* its position
  args,         \* its arguments: [branch, edits, i]
  retries,      \* cloneRepository's retries
  todo,         \* createMemoriesFromFiles: files listed and not yet visited
  result,       \* how the last call ended: "pending", "ok" or the failed step
  trace,        \* the git / API calls of the call in flight, in order
  hist,         \* bookkeeping of the call in flight (see NewHist)
  lastPass,     \* the mirror and the sink when a pass last ran to its end
  calls,        \* API calls made
  envSteps,     \* environment steps taken
  faults,       \* transient failures injected
  mirrors,      \* two clients side by side: per client its inputs and what it derived
  store         \* the knowledge store the two clients share: identifier -> record

vars == <<settings, config, client, repoExists, commits, remoteRefs, originRefs,
          localRefs, tracking, head, files, unreadable, sink, prs, op, pc, args,
          retries, todo, result, trace, hist, lastPass, calls, envSteps, faults,
          mirrors, store>>

gitVars == <<repoExists, commits, remoteRefs, originRefs, localRefs, tracking,
             head, files>>

callVars == <<op, pc, args, retries, todo, result, trace, hist>>

budgetVars == <<calls, envSteps, faults>>

pairVars == <<mirrors, store>>

mainVars == <<settings, config, client, gitVars, unreadable, sink, prs, callVars,
              lastPass, budgetVars>>

\* ------------------------------------------------------------ git helpers

Tree(c) == commits[c].tree

\* the commits reachable from c in history cs, c included
RECURSIVE AncestorsIn(_, _)
AncestorsIn(cs, c) == IF c = 0 THEN {} ELSE {c} \cup AncestorsIn(cs, cs[c].parent)

Ancestors(c) == AncestorsIn(commits, c)

\* paths whose working-tree content differs from tree t
Dirty(wt, t) == {p \in Paths : wt[p] # t[p]}

\* git refuses to move the working tree from tree `from` to tree `to` when a
\* locally modified path would be overwritten
CanSwitch(wt, from, to) == Dirty(wt, from) \cap Dirty(from, to) = {}

\* the working tree after the move: paths that differ between the trees are
\* replaced, local modifications elsewhere are carried over
Switch(wt, from, to) == [p \in Paths |-> IF from[p] # to[p] THEN to[p] ELSE wt[p]]

\* a function with one more mapping (the new mapping wins)
Put(f, k, v) == (k :> v) @@ f

\* one event of `trace`
Ev(ev, ok, ref) == [ev |-> ev, ok |-> ok, ref |-> ref]

\* ------------------------------------------------- the pure functions

\* readFile(file, "utf-8"): bytes that are not well-formed UTF-8 decode to
\* U+FFFD.  The contents of this model hold ASCII bytes and the bytes 254, 255,
\* which are ill-formed wherever they stand.
Utf8Decode(bytes) == [i \in 1..Len(bytes) |-> IF bytes[i] < 128 THEN bytes[i] ELSE 65533]

\* the UTF-8 encoding of one code point of the model (ASCII or U+FFFD)
EncodePoint(cp) == IF cp < 128 THEN <<cp>> ELSE <<239, 191, 189>>

\* hash.update(string) hashes the string's UTF-8 encoding
RECURSIVE Utf8Encode(_)
Utf8Encode(str) == IF str = <<>> THEN <<>> ELSE EncodePoint(Head(str)) \o Utf8Encode(Tail(str))

\* createHash("sha256")...digest("hex"): collision-free on the inputs of the model
Sha256Hex(bytes) == [sha256 |-> bytes]

\* contentHash of a file with the given raw bytes
ContentHash(bytes) == Sha256Hex(Utf8Encode(Utf8Decode(bytes)))

\* path.relative(repoPath, file) printed: the segments joined by "/"
RECURSIVE JoinPath(_)
JoinPath(p) == IF Len(p) <= 1 THEN p ELSE <<Head(p), "/">> \o JoinPath(Tail(p))

\* stringToUuid: a digest of the string, collision-free on the inputs of the model
StringToUuid(str) == [uuid |-> str]

\* knowledgeId of the file at relative path rel
KnowledgeId(cfg, rel) == StringToUuid(<<"github", "-">> \o cfg.owner \o <<"-">> \o cfg.repo \o <<"-">> \o JoinPath(rel))

\* segments that begin with a dot
DotSegments == {".keep", ".git"}

IsPrefix(s, t) == Len(s) <= Len(t) /\ SubSeq(t, 1, Len(s)) = s

\* searchPath without the repoPath prefix and the "**/*" suffix
SearchRoot(cfg) == IF cfg.path # <<>> THEN cfg.path ELSE <<>>

\* glob(searchPath, { nodir: true }): the files below the search root, at any
\* depth; "**" and "*" do not match a segment that begins with a dot
Glob(wt, cfg) == {p \in Paths : /\ wt[p] # NoFile
                               /\ IsPrefix(SearchRoot(cfg), p)
                               /\ Len(p) > Len(SearchRoot(cfg))
                               /\ \A i \in (Len(SearchRoot(cfg)) + 1)..Len(p) : p[i] \notin DotSegments}

\* githubEnvSchema: every setting is a string of at least one character
validateGithubConfig(s) == /\ Len(s.owner) >= 1
                           /\ Len(s.repo) >= 1
                           /\ s.branch # ""
                           /\ Len(s.path) >= 1
                           /\ s.token # ""

\* ------------------------------------------------------------------ Init

\* bookkeeping of one call, for the properties below:
\*   hadMirror  existsSync(repoPath) as initialize saw it
\*   listed     the files glob returned
\*   sink0      the sink when the pass listed the files
\*   upserted   the identifiers the call has passed to knowledge.set
\*   calm       the environment took no step since the call began
\*   head0      the branch checked out when the call began, tip0 its commit
\*   remote0    the branches the remote had when the call began
\*   made       the commits the call has made
\*   ret        what the call returned (the number of the pull request)
\*   sinkCall   the sink when the call began
\*   pushed0    the commits the remote held when the call began
\*   prev       how the call before this one ended
NewHist == [hadMirror |-> FALSE, listed |-> {}, sink0 |-> <<>>, upserted |-> {},
            calm |-> TRUE, head0 |-> "", tip0 |-> 0, remote0 |-> {}, made |-> {},
            ret |-> 0, sinkCall |-> <<>>, pushed0 |-> {}, prev |-> ""]

NoArgs == [branch |-> "", edits |-> <<>>, i |-> 0]

NoPass == [ok |-> FALSE, files |-> EmptyTree, unreadable |-> {}, sink |-> <<>>]

\* no client yet, no mirror on disk, an empty knowledge store; the remote has
\* one commit, which its branches name
Fresh == /\ config = ValidConfig
         /\ client = FALSE
         /\ repoExists = FALSE
         /\ commits = <<[parent |-> 0, tree |-> InitTree]>>
         /\ remoteRefs = [b \in RemoteBranches |-> 1]
         /\ originRefs = <<>>
         /\ localRefs = <<>>
         /\ tracking = {}
         /\ head = ""
         /\ files = EmptyTree
         /\ unreadable = {}
         /\ sink = <<>>
         /\ prs = <<>>
         /\ op = "none"
         /\ pc = "idle"
         /\ args = NoArgs
         /\ retries = 0
         /\ todo = {}
         /\ result = "ok"
         /\ trace = <<>>
         /\ hist = NewHist
         /\ lastPass = NoPass
         /\ calls = 0
         /\ envSteps = 0
         /\ faults = 0

Init == /\ settings \in Configs
        /\ Fresh
        /\ mirrors = <<>>
        /\ store = <<>>

\* a rejected await after which a write-back call stays where it is and makes
\* the step again
ThrowAndRetry(step) == /\ pc' = IF op \in {"pr", "commit"} THEN pc ELSE "idle"
                       /\ result' = step

\* a rejected await: the call ends with the error of the step that failed
Throw(step) == pc' = "idle" /\ result' = step

\* the call returns normally
Return == pc' = "idle" /\ result' = "ok"

\* ----------------------------------------------- GitHubClientInterface.start

\* start that does not wait for initialize
StartThenScan == "glob"

\* start: what follows the construction of the client
StartThen == "initialize"

\* start: validateGithubConfig, new GitHubClient(runtime), then initialize
Start == /\ pc = "idle"
         /\ calls < MaxCalls
         /\ calls' = calls + 1
         /\ op' = "start"
         /\ trace' = <<>>
         /\ hist' = [NewHist EXCEPT !.head0 = head, !.sinkCall = sink, !.prev = result]
         /\ args' = NoArgs
         /\ IF validateGithubConfig(settings)
              THEN /\ config' = settings
                   /\ pc' = StartThen
                   /\ result' = "pending"
              ELSE /\ Throw("validate")
                   /\ UNCHANGED config
         /\ UNCHANGED <<pairVars, settings, client, gitVars, unreadable, sink, prs, retries,
                        todo, lastPass, envSteps, faults>>

\* initialize that clones whether or not the mirror exists
InitializeBranchAlwaysClone == "clone"

\* initialize: if (!existsSync(this.repoPath)) cloneRepository() else pull()
InitializeBranch == IF ~repoExists THEN "clone" ELSE "pull"

\* initialize, up to the branch on existsSync(this.repoPath)
Initialize == /\ pc = "initialize"
              /\ hist' = [hist EXCEPT !.hadMirror = repoExists]
              /\ retries' = 0
              /\ pc' = InitializeBranch
              /\ UNCHANGED <<pairVars, settings, config, client, gitVars, unreadable, sink, prs,
                             op, args, todo, result, trace, lastPass, budgetVars>>

\* what a clone leaves that fetched the repository and then failed while it
\* wrote the files of the working tree: git keeps such a clone on disk
PartialTree(t) == [p \in Paths |-> IF p \in {PathB, PathReadme} THEN NoFile ELSE t[p]]

\* cloneRepository: one turn of the while loop.  git.clone succeeds only into
\* a path that holds nothing; a clone that fails leaves nothing behind, or
\* (left) the fetched repository with a part of its files
CloneRepository == /\ pc = "clone"
                   /\ IF retries < maxRetries
                        THEN \E ok \in BOOLEAN, left \in BOOLEAN :
                               /\ ok => (~repoExists /\ ~left)
                               /\ left => (~repoExists /\ faults < MaxFaults)
                               /\ faults' = IF left THEN faults + 1 ELSE faults
                               /\ trace' = Append(trace, Ev("clone", ok, ""))
                               /\ IF ok \/ left
                                    THEN /\ repoExists' = TRUE
                                         /\ originRefs' = remoteRefs
                                         /\ localRefs' = (DefaultBranch :> remoteRefs[DefaultBranch])
                                         /\ tracking' = {DefaultBranch}
                                         /\ head' = DefaultBranch
                                         /\ files' = IF ok THEN Tree(remoteRefs[DefaultBranch])
                                                     ELSE PartialTree(Tree(remoteRefs[DefaultBranch]))
                                    ELSE UNCHANGED <<repoExists, originRefs, localRefs,
                                                     tracking, head, files>>
                               /\ IF ok
                                    THEN /\ pc' = "checkout"
                                         /\ UNCHANGED <<retries, result>>
                                    ELSE /\ retries' = retries + 1
                                         /\ IF retries + 1 = maxRetries
                                              THEN Throw("clone")
                                              ELSE UNCHANGED <<pc, result>>
                        ELSE /\ pc' = "checkout"
                             /\ UNCHANGED <<repoExists, originRefs, localRefs, tracking,
                                            head, files, retries, result, trace, faults>>
                   /\ UNCHANGED <<pairVars, settings, config, client, commits, remoteRefs,
                                  unreadable, sink, prs, op, args, todo, hist, lastPass,
                                  calls, envSteps>>

\* git pull, after its fetch: the current branch needs an upstream, and the
\* update must be a fast-forward that overwrites no local modification
CanMerge == /\ head \in tracking
            /\ head \in DOMAIN remoteRefs
            /\ \/ remoteRefs[head] \in Ancestors(localRefs[head])
               \/ /\ localRefs[head] \in Ancestors(remoteRefs[head])
                  /\ CanSwitch(files, Tree(localRefs[head]), Tree(remoteRefs[head]))

\* initialize, existing mirror: simpleGit(this.repoPath).pull()
Pull == /\ pc = "pull"
        /\ \E ok \in BOOLEAN :
             IF ~ok
               THEN /\ faults < MaxFaults
                    /\ faults' = faults + 1
                    /\ trace' = Append(trace, Ev("pull", FALSE, head))
                    /\ Throw("pull")
                    /\ UNCHANGED <<originRefs, localRefs, files>>
               ELSE /\ originRefs' = remoteRefs
                    /\ UNCHANGED faults
                    /\ IF CanMerge
                         THEN /\ trace' = Append(trace, Ev("pull", TRUE, head))
                              /\ pc' = "checkout"
                              /\ UNCHANGED result
                              /\ IF remoteRefs[head] \in Ancestors(localRefs[head])
                                   THEN UNCHANGED <<localRefs, files>>
                                   ELSE /\ localRefs' = [localRefs EXCEPT ![head] = remoteRefs[head]]
                                        /\ files' = Switch(files, Tree(localRefs[head]), Tree(remoteRefs[head]))
                         ELSE /\ trace' = Append(trace, Ev("pull", FALSE, head))
                              /\ Throw("pull")
                              /\ UNCHANGED <<localRefs, files>>
        /\ UNCHANGED <<pairVars, settings, config, client, repoExists, commits, remoteRefs, tracking,
                       head, unreadable, sink, prs, op, args, retries, todo, hist,
                       lastPass, calls, envSteps>>

\* the commit `git checkout b` moves to: a local branch, else a new local
\* branch tracking origin/b; 0 when neither exists
CheckoutTarget(b) == IF b \in DOMAIN localRefs THEN localRefs[b]
                     ELSE IF b \in DOMAIN originRefs THEN originRefs[b]
                     ELSE 0

\* the files of tree t that the word b names when git reads it as a path
PathSpec(b, t) == {p \in Paths : p[1] = b /\ t[p] # NoFile}

\* initialize, after clone or pull: if (this.config.branch) git.checkout(branch);
\* start then goes on to createMemoriesFromFiles.  git reads a word that names
\* no branch as a path: it then restores the files the word names and stays
\* on the branch it is on
Checkout == /\ pc = "checkout"
            /\ IF config.branch # ""
                 THEN LET b == config.branch
                          c == CheckoutTarget(b)
                          t == Tree(localRefs[head])
                      IN IF c # 0 /\ CanSwitch(files, t, Tree(c))
                           THEN /\ trace' = Append(trace, Ev("checkout", TRUE, b))
                                /\ head' = b
                                /\ localRefs' = Put(localRefs, b, c)
                                /\ tracking' = IF b \in DOMAIN localRefs THEN tracking
                                               ELSE tracking \cup {b}
                                /\ files' = Switch(files, t, Tree(c))
                                /\ pc' = "glob"
                                /\ UNCHANGED result
                           ELSE IF c = 0 /\ PathSpec(b, t) # {}
                             THEN /\ trace' = Append(trace, Ev("checkout", TRUE, b))
                                  /\ files' = [p \in Paths |-> IF p \in PathSpec(b, t) THEN t[p]
                                                               ELSE files[p]]
                                  /\ pc' = "glob"
                                  /\ UNCHANGED <<head, localRefs, tracking, result>>
                             ELSE /\ trace' = Append(trace, Ev("checkout", FALSE, b))
                                  /\ Throw("checkout")
                                  /\ UNCHANGED <<head, localRefs, tracking, files>>
                 ELSE /\ pc' = "glob"
                      /\ UNCHANGED <<head, localRefs, tracking, files, result, trace>>
            /\ UNCHANGED <<pairVars, settings, config, client, repoExists, commits, remoteRefs,
                           originRefs, unreadable, sink, prs, op, args, retries, todo,
                           hist, lastPass, budgetVars>>

\* ------------------------------------------------ createMemoriesFromFiles

\* the client's createMemoriesFromFiles, called on the client start returned
CallCreateMemories == /\ pc = "idle"
                      /\ client
                      /\ calls < MaxCalls
                      /\ calls' = calls + 1
                      /\ op' = "scan"
                      /\ pc' = "glob"
                      /\ result' = "pending"
                      /\ trace' = <<>>
                      /\ hist' = [NewHist EXCEPT !.head0 = head, !.sinkCall = sink]
                      /\ args' = NoArgs
                      /\ UNCHANGED <<pairVars, settings, config, client, gitVars, unreadable, sink,
                                     prs, retries, todo, lastPass, envSteps, faults>>

\* const files = await glob(searchPath, { nodir: true })
GlobFiles == /\ pc = "glob"
             /\ todo' = Glob(files, config)
             /\ hist' = [hist EXCEPT !.listed = Glob(files, config), !.sink0 = sink]
             /\ pc' = "scan"
             /\ UNCHANGED <<pairVars, settings, config, client, gitVars, unreadable, sink, prs, op,
                            args, retries, result, trace, lastPass, budgetVars>>

\* the comparison inverted
SameHashInverted(existingDocument, contentHash) == existingDocument.hash # contentHash

\* existingDocument.content["hash"] == contentHash
SameHash(existingDocument, contentHash) == existingDocument.hash = contentHash

\* the record knowledge.set stores for a file
Document(f, content, contentHash) == [hash |-> contentHash, text |-> content, path |-> f]

\* one turn of the for loop, on a listed file f (the order of the listing is
\* glob's): readFile, hash, getMemoryById, then skip or knowledge.set
ProcessFile(f) == /\ pc = "scan"
                  /\ f \in todo
                  /\ IF files[f] = NoFile \/ f \in unreadable
                       THEN /\ Throw("read")
                            /\ UNCHANGED <<sink, todo, hist, trace, lastPass>>
                       ELSE LET content == Utf8Decode(files[f])
                                contentHash == Sha256Hex(Utf8Encode(content))
                                knowledgeId == KnowledgeId(config, f)
                            IN /\ todo' = todo \ {f}
                               /\ UNCHANGED <<pc, result, lastPass>>
                               /\ IF knowledgeId \in DOMAIN sink /\ SameHash(sink[knowledgeId], contentHash)
                                    THEN UNCHANGED <<sink, hist, trace>>
                                    ELSE /\ sink' = Put(sink, knowledgeId, Document(f, content, contentHash))
                                         /\ hist' = [hist EXCEPT !.upserted = @ \cup {knowledgeId}]
                                         /\ trace' = Append(trace, Ev("upsert", TRUE, ""))
                  /\ UNCHANGED <<pairVars, settings, config, client, gitVars, unreadable, prs, op,
                                 args, retries, budgetVars>>

ScanFile == \E f \in Paths : ProcessFile(f)

\* the for loop is over: createMemoriesFromFiles returns; in start, the client
\* is returned
ScanDone == /\ pc = "scan"
            /\ todo = {}
            /\ Return
            /\ client' = (client \/ op = "start")
            /\ lastPass' = [ok |-> TRUE, files |-> files, unreadable |-> unreadable, sink |-> sink]
            /\ UNCHANGED <<pairVars, settings, config, gitVars, unreadable, sink, prs, op, args,
                           retries, todo, trace, hist, budgetVars>>

\* ------------------------------------------------------------- write-back

Edit(p, c) == [path |-> p, content |-> c]

\* the `files` arguments the callers of the model pass
EditLists == {<<Edit(PathA, <<98>>), Edit(PathReadme, <<98>>)>>,
              <<Edit(PathA, <<97>>)>>}

\* the configurations under which the callers of the model write back
WriteBackConfigs == {ValidConfig}

\* the `branch` arguments the callers of the model pass; the names are
\* interchangeable, so a caller uses "b2" only once "b1" is a branch of the mirror
PrBranches == {"b1", "b2"}

CallHist == [NewHist EXCEPT !.head0 = head, !.tip0 = localRefs[head],
                            !.remote0 = DOMAIN remoteRefs, !.sinkCall = sink,
                            !.pushed0 = UNION {Ancestors(remoteRefs[b]) : b \in DOMAIN remoteRefs}]

\* createPullRequest(title, branch, files, description) is called
CallCreatePullRequest(branch, edits) ==
  /\ pc = "idle"
  /\ client
  /\ config \in WriteBackConfigs
  /\ calls < MaxCalls
  /\ branch = "b2" => "b1" \in DOMAIN localRefs
  /\ calls' = calls + 1
  /\ op' = "pr"
  /\ pc' = "checkout-b"
  /\ result' = "pending"
  /\ trace' = <<>>
  /\ hist' = CallHist
  /\ args' = [branch |-> branch, edits |-> edits, i |-> 1]
  /\ UNCHANGED <<pairVars, settings, config, client, gitVars, unreadable, sink, prs, retries,
                 todo, lastPass, envSteps, faults>>

\* createCommit(message, files) is called
CallCreateCommit(edits) ==
  /\ pc = "idle"
  /\ client
  /\ config \in WriteBackConfigs
  /\ calls < MaxCalls
  /\ calls' = calls + 1
  /\ op' = "commit"
  /\ pc' = "write"
  /\ result' = "pending"
  /\ trace' = <<>>
  /\ hist' = CallHist
  /\ args' = [branch |-> "", edits |-> edits, i |-> 1]
  /\ UNCHANGED <<pairVars, settings, config, client, gitVars, unreadable, sink, prs, retries,
                 todo, lastPass, envSteps, faults>>

\* createPullRequest: git.checkout(["-b", branch]) creates the branch at HEAD
\* and fails when a local branch of that name exists
CheckoutNewBranch == /\ pc = "checkout-b"
                     /\ IF args.branch \notin DOMAIN localRefs
                          THEN /\ trace' = Append(trace, Ev("checkout-b", TRUE, args.branch))
                               /\ localRefs' = Put(localRefs, args.branch, localRefs[head])
                               /\ head' = args.branch
                               /\ pc' = "write"
                               /\ UNCHANGED result
                          ELSE /\ trace' = Append(trace, Ev("checkout-b", FALSE, args.branch))
                               /\ Throw("checkout-b")
                               /\ UNCHANGED <<localRefs, head>>
                     /\ UNCHANGED <<pairVars, settings, config, client, repoExists, commits, remoteRefs,
                                    originRefs, tracking, files, unreadable, sink, prs, op,
                                    args, retries, todo, hist, lastPass, budgetVars>>

\* one turn of "for (const file of files)": mkdir + writeFile; after the last
\* turn the call goes on to git.add
WriteFile == /\ pc = "write"
             /\ IF args.i <= Len(args.edits)
                  THEN \E ok \in BOOLEAN :
                         /\ trace' = Append(trace, Ev("write", ok, ""))
                         /\ IF ok
                              THEN /\ files' = [files EXCEPT ![args.edits[args.i].path] =
                                                                 args.edits[args.i].content]
                                   /\ args' = [args EXCEPT !.i = @ + 1]
                                   /\ UNCHANGED <<pc, result, faults>>
                              ELSE /\ faults < MaxFaults
                                   /\ faults' = faults + 1
                                   /\ Throw("write")
                                   /\ UNCHANGED <<files, args>>
                  ELSE /\ pc' = "add"
                       /\ UNCHANGED <<files, args, result, trace, faults>>
             /\ UNCHANGED <<pairVars, settings, config, client, repoExists, commits, remoteRefs,
                            originRefs, localRefs, tracking, head, unreadable, sink, prs,
                            op, retries, todo, hist, lastPass, calls, envSteps>>

\* the commit forgotten
AfterAddPush == "push"

\* what follows a git.add that succeeded
AfterAdd == "commit"

\* git.add("."): stages every change of the working tree
GitAdd == /\ pc = "add"
          /\ \E ok \in BOOLEAN :
               /\ trace' = Append(trace, Ev("add", ok, ""))
               /\ IF ok
                    THEN /\ pc' = AfterAdd
                         /\ UNCHANGED <<result, faults>>
                    ELSE /\ faults < MaxFaults
                         /\ faults' = faults + 1
                         /\ Throw("add")
          /\ UNCHANGED <<pairVars, settings, config, client, gitVars, unreadable, sink, prs, op,
                         args, retries, todo, hist, lastPass, calls, envSteps>>

\* only the first edit staged: git.add(files[0].path)
CommitTreeFirstEdit == [p \in Paths |-> IF p = args.edits[1].path THEN files[p]
                                        ELSE Tree(localRefs[head])[p]]

\* the tree git.add(".") stages and git.commit snapshots: the whole working tree
CommitTree == files

\* git.commit(message): one commit of the staged tree on the current branch;
\* with nothing staged git makes no commit and simple-git reports no error
GitCommit == /\ pc = "commit"
             /\ \E ok \in BOOLEAN :
                  /\ trace' = Append(trace, Ev("commit", ok, head))
                  /\ IF ok
                       THEN /\ pc' = "push"
                            /\ UNCHANGED <<result, faults>>
                            /\ IF Dirty(CommitTree, Tree(localRefs[head])) # {}
                                 THEN /\ commits' = Append(commits, [parent |-> localRefs[head],
                                                                     tree |-> CommitTree])
                                      /\ localRefs' = [localRefs EXCEPT ![head] = Len(commits) + 1]
                                      /\ hist' = [hist EXCEPT !.made = @ \cup {Len(commits) + 1}]
                                 ELSE UNCHANGED <<commits, localRefs, hist>>
                       ELSE /\ faults < MaxFaults
                            /\ faults' = faults + 1
                            /\ Throw("commit")
                            /\ UNCHANGED <<commits, localRefs, hist>>
             /\ UNCHANGED <<pairVars, settings, config, client, repoExists, remoteRefs, originRefs,
                            tracking, head, files, unreadable, sink, prs, op, args,
                            retries, todo, lastPass, calls, envSteps>>

\* the remote accepts local branch b as its branch r when r is new or the
\* update is a fast-forward
RemoteAccepts(b, r) == r \notin DOMAIN remoteRefs \/ remoteRefs[r] \in Ancestors(localRefs[b])

\* the remote branch a push of the call in flight names.  createPullRequest:
\* git.push("origin", branch).  createCommit: git.push() names the upstream of
\* the current branch; a branch without upstream is refused, or pushed to the
\* branch of its own name where git is configured so (push.default = current,
\* push.autoSetupRemote): auto says which.
PushTarget(auto) == IF op = "pr" THEN args.branch
                    ELSE IF head \in tracking \/ auto THEN head
                    ELSE ""

\* git.push(...): refused without a target, on a non-fast-forward update, or on
\* a network / authentication failure
GitPush == /\ pc = "push"
           /\ \E ok \in BOOLEAN, auto \in BOOLEAN :
                LET src == IF op = "pr" THEN args.branch ELSE head
                    dst == PushTarget(auto)
                IN /\ ~ok => faults < MaxFaults
                   /\ faults' = IF ok THEN faults ELSE faults + 1
                   /\ IF ok /\ dst # "" /\ RemoteAccepts(src, dst)
                        THEN /\ trace' = Append(trace, Ev("push", TRUE, dst))
                             /\ remoteRefs' = Put(remoteRefs, dst, localRefs[src])
                             /\ originRefs' = Put(originRefs, dst, localRefs[src])
                             /\ IF op = "pr"
                                  THEN pc' = "pulls.create" /\ UNCHANGED result
                                  ELSE Return
                        ELSE /\ trace' = Append(trace, Ev("push", FALSE, dst))
                             /\ Throw("push")
                             /\ UNCHANGED <<remoteRefs, originRefs>>
           /\ UNCHANGED <<pairVars, settings, config, client, repoExists, commits, localRefs,
                          tracking, head, files, unreadable, sink, prs, op, args, retries,
                          todo, hist, lastPass, calls, envSteps>>

\* base: this.config.branch || "main"
PrBase == IF config.branch # "" THEN config.branch ELSE "main"

\* the hosting API creates a pull request when both branches exist, head has
\* commits that base lacks, and no pull request for the pair is open
ApiAccepts(h, b) == /\ h \in DOMAIN remoteRefs
                    /\ b \in DOMAIN remoteRefs
                    /\ remoteRefs[h] \notin AncestorsIn(commits, remoteRefs[b])
                    /\ \A k \in 1..Len(prs) : ~(prs[k].head = h /\ prs[k].base = b)

\* createPullRequest: this.octokit.pulls.create({...}); return pr.data
PullsCreate == /\ pc = "pulls.create"
               /\ \E ok \in BOOLEAN :
                    /\ ~ok => faults < MaxFaults
                    /\ faults' = IF ok THEN faults ELSE faults + 1
                    /\ IF ok /\ ApiAccepts(args.branch, PrBase)
                         THEN /\ trace' = Append(trace, Ev("pulls.create", TRUE, args.branch))
                              /\ prs' = Append(prs, [head |-> args.branch, base |-> PrBase])
                              /\ hist' = [hist EXCEPT !.ret = Len(prs) + 1]
                              /\ Return
                         ELSE /\ trace' = Append(trace, Ev("pulls.create", FALSE, args.branch))
                              /\ Throw("pulls.create")
                              /\ UNCHANGED <<prs, hist>>
               /\ UNCHANGED <<pairVars, settings, config, client, gitVars, unreadable, sink, op, args,
                              retries, todo, lastPass, calls, envSteps>>

\* ------------------------------------------------------- the environment

\* the changes another writer commits to the remote
RemoteEdits == {<<Edit(PathA, <<98>>), Edit(PathC, <<97>>)>>}

\* tree t with the edits es applied in order
RECURSIVE Apply(_, _)
Apply(t, es) == IF es = <<>> THEN t
                ELSE Apply([t EXCEPT ![Head(es).path] = Head(es).content], Tail(es))

\* another writer pushes a commit with the edits es to remote branch b
RemoteCommit(b, es) ==
  /\ pc = "idle"
  /\ repoExists
  /\ envSteps < MaxEnv
  /\ envSteps' = envSteps + 1
  /\ b \in DOMAIN remoteRefs
  /\ Apply(Tree(remoteRefs[b]), es) # Tree(remoteRefs[b])
  /\ commits' = Append(commits, [parent |-> remoteRefs[b],
                                 tree |-> Apply(Tree(remoteRefs[b]), es)])
  /\ remoteRefs' = [remoteRefs EXCEPT ![b] = Len(commits) + 1]
  /\ hist' = [hist EXCEPT !.calm = FALSE]
  /\ UNCHANGED <<pairVars, settings, config, client, repoExists, originRefs, localRefs, tracking,
                 head, files, unreadable, sink, prs, op, pc, args, retries, todo, result,
                 trace, lastPass, calls, faults>>

\* another writer creates remote branch b at the default branch's commit
RemoteBranch(b) ==
  /\ pc = "idle"
  /\ repoExists
  /\ envSteps < MaxEnv
  /\ envSteps' = envSteps + 1
  /\ b \notin DOMAIN remoteRefs
  /\ remoteRefs' = Put(remoteRefs, b, remoteRefs[DefaultBranch])
  /\ hist' = [hist EXCEPT !.calm = FALSE]
  /\ UNCHANGED <<pairVars, settings, config, client, repoExists, commits, originRefs, localRefs,
                 tracking, head, files, unreadable, sink, prs, op, pc, args, retries,
                 todo, result, trace, lastPass, calls, faults>>

\* the changes made to the files of the mirror from outside the client
LocalEdits == {Edit(PathB, <<254>>), Edit(PathA, NoFile), Edit(PathDot, <<98>>)}

\* a file of the mirror is changed or created between calls, or removed
\* between calls or while a pass is visiting the listed files
LocalChange(e) ==
  /\ pc = "idle" \/ (pc = "scan" /\ e.content = NoFile)
  /\ repoExists
  /\ envSteps < MaxEnv
  /\ envSteps' = envSteps + 1
  /\ files[e.path] # e.content
  /\ files' = [files EXCEPT ![e.path] = e.content]
  /\ hist' = [hist EXCEPT !.calm = FALSE]
  /\ UNCHANGED <<pairVars, settings, config, client, repoExists, commits, remoteRefs, originRefs,
                 localRefs, tracking, head, unreadable, sink, prs, op, pc, args, retries,
                 todo, result, trace, lastPass, calls, faults>>

\* a file of the mirror loses its read permission
Chmod(p) ==
  /\ pc = "idle"
  /\ repoExists
  /\ envSteps < MaxEnv
  /\ envSteps' = envSteps + 1
  /\ files[p] # NoFile
  /\ p \notin unreadable
  /\ unreadable' = unreadable \cup {p}
  /\ hist' = [hist EXCEPT !.calm = FALSE]
  /\ UNCHANGED <<pairVars, settings, config, client, gitVars, sink, prs, op, pc, args, retries,
                 todo, result, trace, lastPass, calls, faults>>

\* the operator points the client at another branch of the same repository
\* (the mirror's path depends on owner and repo only): from "dev" to "main"
Reconfigure ==
  /\ pc = "idle"
  /\ repoExists
  /\ settings.branch = "dev"
  /\ settings' = [settings EXCEPT !.branch = "main"]
  /\ UNCHANGED <<pairVars, config, client, gitVars, unreadable, sink, prs, callVars,
                 lastPass, budgetVars>>

\* ------------------------------------------------------------------ Spec

Next == \/ Start
        \/ Initialize
        \/ CloneRepository
        \/ Pull
        \/ Checkout
        \/ CallCreateMemories
        \/ GlobFiles
        \/ ScanFile
        \/ ScanDone
        \/ \E b \in PrBranches, es \in EditLists : CallCreatePullRequest(b, es)
        \/ \E es \in EditLists : CallCreateCommit(es)
        \/ CheckoutNewBranch
        \/ WriteFile
        \/ GitAdd
        \/ GitCommit
        \/ GitPush
        \/ PullsCreate
        \/ \E b \in {"main", "b1"}, es \in RemoteEdits : RemoteCommit(b, es)
        \/ \E b \in {"b1"} : RemoteBranch(b)
        \/ \E e \in LocalEdits : LocalChange(e)
        \/ Chmod(PathA)
        \/ Reconfigure

Spec == Init /\ [][Next]_vars

\* ---------------------------------------------------------------- claims

\* the positions in `trace` of the events named ev
Idx(ev) == {i \in DOMAIN trace : trace[i].ev = ev}

\* a start that passed validation and has taken initialize's branch
Initializing == op = "start" /\ result # "validate" /\ pc # "initialize"

\* C1: with no mirror at the mirror path, the clone is attempted until the
\* first success or the 3rd failure: at most 3 attempts, none after a
\* success, another attempt after each of the first two failures, the
\* clone-exhausted error exactly after 3 failed attempts, and initialize
\* goes on only after an attempt succeeded.
C1_CloneRetry ==
  (Initializing /\ ~hist.hadMirror) =>
     /\ Cardinality(Idx("clone")) <= 3
     /\ \A i \in Idx("clone") : trace[i].ok => \A j \in Idx("clone") : j <= i
     /\ pc = "clone" => /\ Cardinality(Idx("clone")) < 3
                        /\ \A i \in Idx("clone") : ~trace[i].ok
     /\ result = "clone" => /\ pc = "idle"
                            /\ Cardinality(Idx("clone")) = 3
                            /\ \A i \in Idx("clone") : ~trace[i].ok
     /\ (pc # "clone" /\ result # "clone") => \E i \in Idx("clone") : trace[i].ok

\* a remote that fails twice and then succeeds: ensureReady went on after
\* exactly 3 attempts
C1_Witness ==
  /\ op = "start"
  /\ pc = "checkout"
  /\ trace = <<Ev("clone", FALSE, ""), Ev("clone", FALSE, ""), Ev("clone", TRUE, "")>>

\* C4: with a mirror at the mirror path, initialize makes no clone and
\* exactly one pull, of the branch checked out when the call began; a pull
\* that fails ends the call with the pull's error: no second pull, no
\* checkout.
C4_ExistingMirrorPullsOnce ==
  (Initializing /\ hist.hadMirror) =>
     /\ Idx("clone") = {}
     /\ Cardinality(Idx("pull")) = IF pc = "pull" THEN 0 ELSE 1
     /\ \A i \in Idx("pull") : /\ i = 1
                               /\ trace[i].ref = hist.head0
                               /\ ~trace[i].ok => /\ result = "pull"
                                                  /\ pc = "idle"
                                                  /\ Len(trace) = 1
                               /\ trace[i].ok => result # "pull"

\* a start on an existing mirror whose pull failed
C4_Witness ==
  /\ Initializing
  /\ hist.hadMirror
  /\ result = "pull"
  /\ trace = <<Ev("pull", FALSE, hist.head0)>>

\* how initialize can fail
InitFailures == {"clone", "pull", "checkout"}

\* C6: in start, the scan + upsert pass runs only after initialize has
\* succeeded (a clone or pull, then the checkout, all successful and all
\* before the listing and every upsert); when initialize fails the call ends
\* with that error and has performed no upsert.
C6_ScanAfterEnsureReady ==
  op = "start" =>
     /\ result \in InitFailures => /\ pc = "idle"
                                   /\ hist.upserted = {}
                                   /\ Idx("upsert") = {}
                                   /\ sink = hist.sinkCall
     /\ (pc \in {"glob", "scan"} \/ Idx("upsert") # {} \/ sink # hist.sinkCall) =>
          \E i \in Idx("checkout") :
             /\ trace[i].ok
             /\ \E j \in Idx("clone") \cup Idx("pull") : j < i /\ trace[j].ok
             /\ \A k \in Idx("upsert") : i < k

\* a start whose initialize failed at the branch checkout
C6_Witness ==
  /\ op = "start"
  /\ result = "checkout"
  /\ hist.upserted = {}

\* a scan + upsert pass has listed its files and is visiting them, or has ended
InPass == /\ op \in {"start", "scan"}
          /\ \/ pc = "scan"
             \/ pc = "idle" /\ result \in {"ok", "read"}

\* the pass in flight began on the mirror and the sink an earlier pass left
\* when it ran to its end, and the mirror was not changed since
Settled == /\ lastPass.ok
           /\ hist.calm
           /\ hist.sink0 = lastPass.sink
           /\ files = lastPass.files
           /\ unreadable = lastPass.unreadable

\* C2: a pass that runs on the mirror and the sink which a completed pass
\* left behind performs no upsert: the sink stays as it was.
C2_Idempotent ==
  (InPass /\ Settled) => /\ hist.upserted = {}
                         /\ Idx("upsert") = {}
                         /\ sink = hist.sink0

\* a second pass (a direct call of createMemoriesFromFiles) has visited every
\* file of a non-empty listing on an unchanged mirror
C2_Witness ==
  /\ op = "scan"
  /\ pc = "scan"
  /\ todo = {}
  /\ hist.listed # {}
  /\ Settled
  /\ hist.upserted = {}

\* the regular files under the path filter
UnderFilter == {p \in Paths : /\ files[p] # NoFile
                              /\ IsPrefix(config.path, p)
                              /\ Len(p) > Len(config.path)}

\* a pass is over: the loop has visited every listed file, or the call has
\* ended with a read error
PassOver == /\ op \in {"start", "scan"}
            /\ \/ pc = "scan" /\ todo = {}
               \/ pc = "idle" /\ result = "read"

\* C3: in one pass a file under the path filter is upserted if and only if
\* the sink had no record for its identifier or the stored fingerprint
\* differs from the fresh one; after a completed pass, the next pass upserts
\* exactly the identifiers of the files whose bytes were altered since.
C3_ExactChangeDetection ==
  (PassOver /\ hist.calm) =>
     /\ \A f \in UnderFilter :
          KnowledgeId(config, f) \in hist.upserted
            <=> \/ KnowledgeId(config, f) \notin DOMAIN hist.sink0
                \/ hist.sink0[KnowledgeId(config, f)].hash # ContentHash(files[f])
     /\ (lastPass.ok /\ hist.sink0 = lastPass.sink) =>
          hist.upserted = {KnowledgeId(config, f) :
                             f \in {g \in UnderFilter : files[g] # lastPass.files[g]}}

\* C5: a pass that met a file it could not read has still visited every
\* other listed file: the files left unvisited are only files that cannot be
\* read.
C5_ContinueOnError ==
  (op \in {"start", "scan"} /\ pc = "idle" /\ result = "read") =>
     \A f \in todo : files[f] = NoFile \/ f \in unreadable

\* every edit of the call is in tree t
EditsIn(t) == \A k \in 1..Len(args.edits) : t[args.edits[k].path] = args.edits[k].content

\* the remote holds commit c
Pushed(c) == \E b \in DOMAIN remoteRefs : c \in Ancestors(remoteRefs[b])

\* a createCommit with two file edits has ended, and the environment has not
\* moved since it began
TwoEditsDone == /\ op = "commit"
                /\ pc = "idle"
                /\ Len(args.edits) = 2
                /\ hist.calm

\* C7 as claimed: the call ends in one of two states only: both files in one
\* new commit that has been pushed, or, the push refused, both files in the
\* mirror and in a new local commit that is not pushed.
C7_TwoOutcomes ==
  TwoEditsDone =>
     \/ /\ result = "ok"
        /\ \E c \in hist.made : hist.made = {c} /\ EditsIn(Tree(c)) /\ Pushed(c)
     \/ /\ result = "push"
        /\ EditsIn(files)
        /\ \E c \in hist.made : hist.made = {c} /\ EditsIn(Tree(c)) /\ ~Pushed(c)

\* C7 amended: the call makes at most one commit, and a commit it makes
\* holds both edits and is the tip of the checked-out branch; the call ends
\* (1) successfully, with both edits in the working tree and in the tip
\* commit, which the remote holds, or (2) with the push refused, both edits in
\* the working tree and in the local tip commit, no commit of the call
\* pushed, or (3) with the error of a write, the staging or the commit, the
\* edits written before the failure in the working tree, and no commit made.
C7_Amended ==
  TwoEditsDone =>
     /\ Cardinality(hist.made) <= 1
     /\ \A c \in hist.made : EditsIn(Tree(c)) /\ localRefs[head] = c
     /\ \/ /\ result = "ok"
           /\ EditsIn(files)
           /\ EditsIn(Tree(localRefs[head]))
           /\ Pushed(localRefs[head])
        \/ /\ result = "push"
           /\ EditsIn(files)
           /\ EditsIn(Tree(localRefs[head]))
           /\ \A c \in hist.made : ~Pushed(c)
        \/ /\ result \in {"write", "add", "commit"}
           /\ hist.made = {}
           /\ \A k \in 1..(args.i - 1) : files[args.edits[k].path] = args.edits[k].content
           /\ result # "write" => EditsIn(files)

\* the push of a two-edit createCommit was refused after the commit was made
C7_Witness ==
  /\ TwoEditsDone
  /\ result = "push"
  /\ hist.made # {}
  /\ EditsIn(files)

\* the names of the steps of createPullRequest, in the order of the source
PrSteps == <<"checkout-b">> \o [k \in 1..Len(args.edits) |-> "write"]
             \o <<"add", "commit", "push", "pulls.create">>

\* the calls of createPullRequest so far are the first steps of PrSteps, each
\* made only after all earlier ones succeeded; a failed step ends the call
\* with its error
PrOrder == /\ Len(trace) <= Len(PrSteps)
           /\ \A i \in DOMAIN trace : trace[i].ev = PrSteps[i]
           /\ \A i \in DOMAIN trace : ~trace[i].ok => /\ i = Len(trace)
                                                      /\ pc = "idle"
                                                      /\ result = trace[i].ev
           /\ result = "ok" => Len(trace) = Len(PrSteps)

\* the pull request the call created: one request, head = the new branch,
\* base = the configured branch, and its result returned
PrMade == /\ Cardinality(Idx("pulls.create")) = 1
          /\ hist.ret = Len(prs)
          /\ prs[Len(prs)] = [head |-> args.branch, base |-> config.branch]

\* the commits of the remote's new branch that the remote did not hold when
\* the call began
NewOnRemote == Ancestors(remoteRefs[args.branch]) \ hist.pushed0

C9_PushToConfiguredBranch ==
  op = "commit" => \A i \in Idx("push") : trace[i].ref = config.branch

\* C10: createPullRequest with a branch name the remote already has fails at
\* the creation of the branch: nothing is written, committed or pushed, and
\* no pull request is requested.
C10_BranchExistsRemotely ==
  (op = "pr" /\ args.branch \in hist.remote0) =>
     /\ \A i \in DOMAIN trace : trace[i].ev = "checkout-b" /\ ~trace[i].ok
     /\ pc = "idle" => result = "checkout-b"

\* initialize has returned in the start in flight: the call is listing or
\* visiting files, or has ended in or after the pass
InitDone == /\ op = "start"
            /\ \/ pc \in {"glob", "scan"}
               \/ pc = "idle" /\ result \in {"ok", "read"}

\* C11: when initialize has returned successfully, the branch checked out is
\* the configured branch, whatever was checked out before; when the
\* configured branch exists neither in the mirror nor on the remote, the
\* checkout fails and start ends with its error.
C11_BranchPostcondition ==
  op = "start" =>
     /\ InitDone => head = config.branch
     /\ (Idx("checkout") # {} /\ config.branch \notin (DOMAIN localRefs \cup DOMAIN originRefs))
          => (pc = "idle" /\ result = "checkout")

\* C12: a start that ended with the clone-exhausted error leaves nothing at
\* the mirror path, and the start that follows it finds no mirror, makes no
\* pull and counts its clone attempts from zero.
C12_CloneExhaustedLeavesNoMirror ==
  /\ (op = "start" /\ pc = "idle" /\ result = "clone") => ~repoExists
  /\ (Initializing /\ hist.prev = "clone") =>
        /\ ~hist.hadMirror
        /\ Idx("pull") = {}
        /\ pc = "clone" => retries = Cardinality(Idx("clone"))

\* the steps of the write-back call in flight, in the order of the source
WbSteps == IF op = "pr" THEN PrSteps
           ELSE [k \in 1..Len(args.edits) |-> "write"] \o <<"add", "commit", "push">>

\* the writes of the call in flight that succeeded
Written == {i \in Idx("write") : trace[i].ok}

\* C13: a write-back call makes its steps in the order of the source; a step
\* that fails is the last thing the call does: it is made once, no step
\* follows it, and the call ends with its error; the edits written before
\* the failure are still in the mirror.
C13_NoRollbackNoRetry ==
  op \in {"pr", "commit"} =>
     /\ Len(trace) <= Len(WbSteps)
     /\ \A i \in DOMAIN trace : /\ trace[i].ev = WbSteps[i]
                                /\ ~trace[i].ok => /\ i = Len(trace)
                                                   /\ pc = "idle"
                                                   /\ result = trace[i].ev
     /\ (pc = "idle" /\ result # "ok") =>
          /\ trace # <<>>
          /\ ~trace[Len(trace)].ok
          /\ args.i = Cardinality(Written) + 1
          /\ hist.calm => \A k \in 1..Cardinality(Written) :
                             files[args.edits[k].path] = args.edits[k].content

\* a createPullRequest failed at its second write: the first edit is in the
\* mirror, and nothing was staged, committed, pushed or requested
C13_Witness ==
  /\ op = "pr"
  /\ pc = "idle"
  /\ result = "write"
  /\ hist.calm
  /\ trace = <<Ev("checkout-b", TRUE, args.branch), Ev("write", TRUE, ""), Ev("write", FALSE, "")>>
  /\ files[args.edits[1].path] = args.edits[1].content
  /\ files[args.edits[2].path] # args.edits[2].content

\* C15: start accepts the settings exactly when owner, repo, branch and
\* credential are non-empty, whether or not the path filter is empty; for
\* settings it rejects it makes no clone, pull, checkout or upsert.
C15_ConfigGate ==
  op = "start" =>
     /\ result # "validate" <=> /\ Len(settings.owner) >= 1
                                /\ Len(settings.repo) >= 1
                                /\ settings.branch # ""
                                /\ settings.token # ""
     /\ result = "validate" => /\ pc = "idle"
                               /\ trace = <<>>
                               /\ sink = hist.sinkCall

\* C17: when initialize has succeeded on an existing mirror, the configured
\* branch of the mirror holds the remote's latest commit of that branch.
C17_MirrorFresh ==
  (InitDone /\ hist.hadMirror /\ hist.calm
     /\ config.branch \in (DOMAIN localRefs \cap DOMAIN remoteRefs)) =>
        remoteRefs[config.branch] \in Ancestors(localRefs[config.branch])

\* ------------------------------------------- two clients side by side
\*
\* The paths and identifiers a client derives, as functions of its inputs:
\* the working directory of its process, its owner and repo settings, a file
\* of its mirror and the `path` of an edit passed to it.  Two clients run
\* their constructor, one turn of createMemoriesFromFiles' loop and one turn
\* of a write loop, in any interleaving, on one knowledge store.
\* A string is the sequence of its pieces ("/" and "-" are pieces of their
\* own); a path is the sequence of its segments, each a string.

\* a string cut at its "/": empty segments vanish
RECURSIVE SplitFrom(_, _)
SplitFrom(str, seg) ==
  IF str = <<>> THEN (IF seg = <<>> THEN <<>> ELSE <<seg>>)
  ELSE IF Head(str) = "/"
         THEN (IF seg = <<>> THEN <<>> ELSE <<seg>>) \o SplitFrom(Tail(str), <<>>)
         ELSE SplitFrom(Tail(str), Append(seg, Head(str)))

Segments(str) == SplitFrom(str, <<>>)

\* path.normalize on an absolute path: "." names the directory itself, ".."
\* its parent, the parent of the root is the root
RECURSIVE Resolve(_, _)
Resolve(done, rest) ==
  IF rest = <<>> THEN done
  ELSE IF Head(rest) = <<".">> THEN Resolve(done, Tail(rest))
  ELSE IF Head(rest) = <<"..">>
         THEN Resolve(IF done = <<>> THEN <<>> ELSE SubSeq(done, 1, Len(done) - 1), Tail(rest))
         ELSE Resolve(Append(done, Head(rest)), Tail(rest))

\* this.repoPath = path.join(process.cwd(), ".repos", owner, repo)
RepoPath(cwd, owner, repo) ==
  Resolve(<<>>, Segments(cwd) \o <<<<".repos">>>> \o Segments(owner) \o Segments(repo))

\* path.join(this.repoPath, file.path)
FilePath(repoPath, path) == Resolve(repoPath, Segments(path))

\* the number of leading segments two paths share
RECURSIVE CommonLen(_, _)
CommonLen(p, q) == IF p = <<>> \/ q = <<>> \/ Head(p) # Head(q) THEN 0
                   ELSE 1 + CommonLen(Tail(p), Tail(q))

\* a relative path that is the whole path of the file
RelativeIsAbsolute(from, to) == to

\* path.relative(from, to) of two absolute paths: up from `from` to the
\* directory both share, then down to `to`
Relative(from, to) ==
  [k \in 1..(Len(from) - CommonLen(from, to)) |-> <<"..">>]
    \o SubSeq(to, CommonLen(from, to) + 1, Len(to))

\* the segments of a path of the mirror (each one piece) and back
Seg(rel) == [k \in 1..Len(rel) |-> <<rel[k]>>]

Words(segs) == [k \in 1..Len(segs) |-> segs[k][1]]

Clients == {1, 2}

\* process.cwd() of the two processes
Cwds == {<<"/", "srv", "/", "one">>, <<"/", "srv", "/", "two">>}

\* owner and repository names: letters, digits and hyphens
Owners == {<<"a">>, <<"a", "-", "b">>}

Repos == {<<"c">>, <<"b", "-", "c">>}

\* the `path` of an edit
EditPaths == {<<"guides", "/", "a.md">>, <<"..", "/", "..", "/", "x">>}

\* a client before its constructor ran: its inputs, and nothing derived
NewMirrors == [cwd : Cwds, owner : Owners, repo : Repos, rel : {PathA, PathReadme},
               bytes : {<<97>>, <<98>>}, edit : EditPaths,
               pc : {"new"}, repoPath : {<<>>}, id : {StringToUuid(<<>>)},
               met : {0}, did : {""}, target : {<<>>}]

InitMirrors == /\ settings = ValidConfig
               /\ Fresh
               /\ mirrors \in [Clients -> NewMirrors]
               /\ store = <<>>

\* new GitHubClient(runtime): this.repoPath
Construct(m) ==
  /\ mirrors[m].pc = "new"
  /\ mirrors' = [mirrors EXCEPT ![m].pc = "ready",
                                ![m].repoPath = RepoPath(mirrors[m].cwd, mirrors[m].owner,
                                                         mirrors[m].repo)]
  /\ UNCHANGED <<store, mainVars>>

\* one turn of createMemoriesFromFiles' loop in client m, on the file glob
\* returned for mirrors[m].rel: relativePath, readFile, hash, knowledgeId,
\* getMemoryById, then skip or knowledge.set.  A record of the store notes
\* the client that set it (by), the turn notes whose record it met (met)
ScanFileOf(m) ==
  /\ mirrors[m].pc = "ready"
  /\ mirrors[m].did = ""
  /\ LET file == mirrors[m].repoPath \o Seg(mirrors[m].rel)
         relativePath == Relative(mirrors[m].repoPath, file)
         content == Utf8Decode(mirrors[m].bytes)
         contentHash == Sha256Hex(Utf8Encode(content))
         knowledgeId == KnowledgeId(mirrors[m], Words(relativePath))
         found == knowledgeId \in DOMAIN store
     IN IF found /\ SameHash(store[knowledgeId].doc, contentHash)
          THEN /\ mirrors' = [mirrors EXCEPT ![m].id = knowledgeId, ![m].did = "skip",
                                             ![m].met = store[knowledgeId].by]
               /\ UNCHANGED store
          ELSE /\ mirrors' = [mirrors EXCEPT ![m].id = knowledgeId, ![m].did = "set",
                                             ![m].met = IF found THEN store[knowledgeId].by
                                                        ELSE 0]
               /\ store' = Put(store, knowledgeId,
                               [doc |-> Document(Words(relativePath), content, contentHash),
                                by |-> m])
  /\ UNCHANGED mainVars

\* one turn of the write loop of createPullRequest / createCommit in client
\* m: filePath = path.join(this.repoPath, file.path), mkdir, writeFile
WriteEdit(m) ==
  /\ mirrors[m].pc = "ready"
  /\ mirrors[m].target = <<>>
  /\ mirrors' = [mirrors EXCEPT ![m].target = FilePath(mirrors[m].repoPath, mirrors[m].edit)]
  /\ UNCHANGED <<store, mainVars>>

NextMirrors == \/ \E m \in Clients : Construct(m)
               \/ \E m \in Clients : ScanFileOf(m)
               \/ \E m \in Clients : WriteEdit(m)

SpecMirrors == InitMirrors /\ [][NextMirrors]_vars

\* client m has made its turn of the scan loop
Scanned(m) == mirrors[m].did # ""

\* C14: two clients with distinct (owner, repo) pairs derive distinct mirror
\* paths and distinct identifiers, and no pass meets (reads, skips on or
\* overwrites) a record that the other client's pass has set.
C14_IndependentMirrors ==
  \A m \in Clients, n \in Clients :
     (m # n /\ <<mirrors[m].owner, mirrors[m].repo>> # <<mirrors[n].owner, mirrors[n].repo>>) =>
        /\ (mirrors[m].pc = "ready" /\ mirrors[n].pc = "ready") =>
              mirrors[m].repoPath # mirrors[n].repoPath
        /\ (Scanned(m) /\ Scanned(n)) => mirrors[m].id # mirrors[n].id
        /\ Scanned(m) => mirrors[m].met # n

\* C16: the identifier a pass derives for a file is the identifier of
\* (owner, repo, path relative to the mirror root) and of nothing else: two
\* passes that agree on the three derive the same identifier, whatever the
\* working directories of their processes.
C16_IdentifierStable ==
  \A m \in Clients, n \in Clients :
     /\ Scanned(m) => mirrors[m].id = KnowledgeId(mirrors[m], mirrors[m].rel)
     /\ (/\ Scanned(m)
         /\ Scanned(n)
         /\ mirrors[m].owner = mirrors[n].owner
         /\ mirrors[m].repo = mirrors[n].repo
         /\ mirrors[m].rel = mirrors[n].rel) => mirrors[m].id = mirrors[n].id

\* two processes with different working directories have scanned the same
\* file of the same repository: the second met the record of the first
C16_Witness ==
  /\ Scanned(1)
  /\ Scanned(2)
  /\ mirrors[1].cwd # mirrors[2].cwd
  /\ mirrors[1].repoPath # mirrors[2].repoPath
  /\ mirrors[1].owner = mirrors[2].owner
  /\ mirrors[1].repo = mirrors[2].repo
  /\ mirrors[1].rel = mirrors[2].rel
  /\ mirrors[1].id = mirrors[2].id
  /\ mirrors[2].met = 1

\* C18: the file a turn of the write loop writes lies below the mirror
\* directory, for every edit path.
C18_WriteContained ==
  \A m \in Clients :
     mirrors[m].target # <<>> =>
        /\ IsPrefix(mirrors[m].repoPath, mirrors[m].target)
        /\ Len(mirrors[m].target) > Len(mirrors[m].repoPath)

====
